---- MODULE Spec2Model ----
(***************************************************************************)
(* Baked Baker: a proxy that starts one Agent Baker instance per embedded  *)
(* version and routes each RPC request to the instance of the version the  *)
(* request names.                                                          *)
(*                                                                         *)
(*   - package versions: extractBinaries, spawnVersions, New, Mapping.Base *)
(*   - package http:     versionedRequest, the three RPC handlers,         *)
(*                       sendToAgentBaker                                  *)
(*   - main:             versions.New, http.New, ListenAndServe            *)
(*                                                                         *)
(* A request body is a sequence of JSON tokens; json.Unmarshal is a parser *)
(* of that sequence followed by a decoder into the Go type, json.Marshal   *)
(* the encoder of the Go value.  A URL or file path is the sequence of its *)
(* "/"-separated elements, so that "http://localhost:8080" is              *)
(* <<"http:", "", "localhost:8080">>.                                      *)
(***************************************************************************)
EXTENDS Integers, Sequences, FiniteSets, TLC

(***************************************************************************)
(* Bounds of the model.                                                    *)
(***************************************************************************)
\* Entries of the embedded binaries directory.
MaxEntries == 2
\* Requests the server handles at the same time.
MaxReq == 1

(***************************************************************************)
(* JSON text: tokens.                                                      *)
(***************************************************************************)
Tok(t, s) == [t |-> t, s |-> s]
LB == Tok("{", "")
RB == Tok("}", "")
COLON == Tok(":", "")
COMMA == Tok(",", "")
NullTok == Tok("null", "")
StrTok(s) == Tok("str", s)
NumTok(s) == Tok("num", s)

(***************************************************************************)
(* JSON values: a string, a number, null, or an object, which is a         *)
(* sequence of members (name, value).                                      *)
(***************************************************************************)
JStr(s) == [k |-> "str", s |-> s, m |-> <<>>]
JNum(s) == [k |-> "num", s |-> s, m |-> <<>>]
JNull == [k |-> "null", s |-> "", m |-> <<>>]
JObj(m) == [k |-> "obj", s |-> "", m |-> m]
Member(n, v) == [n |-> n, v |-> v]

RECURSIVE Serialize(_)
RECURSIVE SerializeMembers(_)
\* The text of a JSON value.
Serialize(j) ==
    CASE j.k = "str" -> <<StrTok(j.s)>>
      [] j.k = "num" -> <<NumTok(j.s)>>
      [] j.k = "null" -> <<NullTok>>
      [] OTHER -> <<LB>> \o SerializeMembers(j.m) \o <<RB>>

SerializeMembers(m) ==
    IF m = <<>> THEN <<>>
    ELSE <<StrTok(m[1].n), COLON>> \o Serialize(m[1].v)
         \o (IF Len(m) > 1 THEN <<COMMA>> \o SerializeMembers(Tail(m)) ELSE <<>>)

(***************************************************************************)
(* The parser of json.Unmarshal: one JSON value, then the end of the text. *)
(* A name that occurs twice in an object is an error.                      *)
(***************************************************************************)
ParseFail == [ok |-> FALSE, v |-> JNull, i |-> 0]
ParseOk(v, i) == [ok |-> TRUE, v |-> v, i |-> i]

RECURSIVE ParseValue(_, _)
RECURSIVE ParseMembers(_, _, _)
ParseValue(toks, i) ==
    IF i > Len(toks) THEN ParseFail
    ELSE CASE toks[i].t = "str" -> ParseOk(JStr(toks[i].s), i + 1)
           [] toks[i].t = "num" -> ParseOk(JNum(toks[i].s), i + 1)
           [] toks[i].t = "null" -> ParseOk(JNull, i + 1)
           [] toks[i].t = "{" ->
                IF i + 1 <= Len(toks) /\ toks[i + 1].t = "}"
                THEN ParseOk(JObj(<<>>), i + 2)
                ELSE ParseMembers(toks, i + 1, <<>>)
           [] OTHER -> ParseFail

ParseMembers(toks, i, acc) ==
    IF i + 1 > Len(toks) THEN ParseFail
    ELSE IF toks[i].t # "str" \/ toks[i + 1].t # ":" THEN ParseFail
    ELSE IF \E k \in 1..Len(acc) : acc[k].n = toks[i].s THEN ParseFail
    ELSE LET r == ParseValue(toks, i + 2) IN
         IF ~r.ok \/ r.i > Len(toks) THEN ParseFail
         ELSE LET acc2 == Append(acc, Member(toks[i].s, r.v)) IN
              CASE toks[r.i].t = "}" -> ParseOk(JObj(acc2), r.i + 1)
                [] toks[r.i].t = "," -> ParseMembers(toks, r.i + 1, acc2)
                [] OTHER -> ParseFail

Parse(toks) ==
    LET r == ParseValue(toks, 1) IN
    IF r.ok /\ r.i = Len(toks) + 1 THEN r ELSE ParseFail

(***************************************************************************)
(* Go values and their decoders.  Config is the request type T (two string *)
(* fields); VersionedReq[T] wraps it with the version.                     *)
(***************************************************************************)
Config(type, data) == [Type |-> type, Data |-> data]
emptyT == Config("", "")
VersionedReq(ver, req) == [ABVersion |-> ver, Req |-> req]
emptyVersioned == VersionedReq("", emptyT)

\* A faulty IsZero: a value with one zero field counts as zero.
IsZeroAnyField(c) == c.Type = "" \/ c.Data = ""

\* reflect.ValueOf(v).IsZero() of a Config: every field has its zero value.
IsZero(c) == c.Type = "" /\ c.Data = ""

DecodeFail(zero) == [ok |-> FALSE, v |-> zero]
DecodeOk(v) == [ok |-> TRUE, v |-> v]

\* A Go string (versions.Version is one) takes a JSON string; null zeroes it.
DecodeString(j) ==
    CASE j.k = "str" -> DecodeOk(j.s)
      [] j.k = "null" -> DecodeOk("")
      [] OTHER -> DecodeFail("")

RECURSIVE DecodeConfigMembers(_, _)
\* The members of an object into a Config: a member no field is named after is skipped.
DecodeConfigMembers(m, c) ==
    IF m = <<>> THEN DecodeOk(c)
    ELSE IF m[1].n \in {"Type", "Data"}
         THEN LET s == DecodeString(m[1].v) IN
              IF ~s.ok THEN DecodeFail(emptyT)
              ELSE DecodeConfigMembers(Tail(m), [c EXCEPT ![m[1].n] = s.v])
         ELSE DecodeConfigMembers(Tail(m), c)

DecodeConfig(j) ==
    CASE j.k = "obj" -> DecodeConfigMembers(j.m, emptyT)
      [] j.k = "null" -> DecodeOk(emptyT)
      [] OTHER -> DecodeFail(emptyT)

RECURSIVE DecodeVersionedMembers(_, _)
DecodeVersionedMembers(m, v) ==
    IF m = <<>> THEN DecodeOk(v)
    ELSE IF m[1].n = "ABVersion"
         THEN LET s == DecodeString(m[1].v) IN
              IF ~s.ok THEN DecodeFail(emptyVersioned)
              ELSE DecodeVersionedMembers(Tail(m), [v EXCEPT !.ABVersion = s.v])
    ELSE IF m[1].n = "Req"
         THEN LET c == DecodeConfig(m[1].v) IN
              IF ~c.ok THEN DecodeFail(emptyVersioned)
              ELSE DecodeVersionedMembers(Tail(m), [v EXCEPT !.Req = c.v])
    ELSE DecodeVersionedMembers(Tail(m), v)

DecodeVersioned(j) ==
    CASE j.k = "obj" -> DecodeVersionedMembers(j.m, emptyVersioned)
      [] j.k = "null" -> DecodeOk(emptyVersioned)
      [] OTHER -> DecodeFail(emptyVersioned)

\* json.Unmarshal(body, &config)
UnmarshalConfig(body) ==
    LET p == Parse(body) IN
    IF p.ok THEN DecodeConfig(p.v) ELSE DecodeFail(emptyT)

\* json.Unmarshal(body, &versioned)
UnmarshalVersioned(body) ==
    LET p == Parse(body) IN
    IF p.ok THEN DecodeVersioned(p.v) ELSE DecodeFail(emptyVersioned)

\* The JSON value of a Config and of a VersionedReq: the fields in the order of
\* the type, under the names of the fields.
ConfigJSON(c) == JObj(<<Member("Type", JStr(c.Type)), Member("Data", JStr(c.Data))>>)
VersionedJSON(v) ==
    JObj(<<Member("ABVersion", JStr(v.ABVersion)), Member("Req", ConfigJSON(v.Req))>>)

\* json.Marshal(config)
MarshalConfig(c) == Serialize(ConfigJSON(c))
\* The encoding of an envelope, as a client sends it.
MarshalVersioned(v) == Serialize(VersionedJSON(v))

(***************************************************************************)
(* versionedRequest                                                        *)
(***************************************************************************)
Latest == "latest"

\* What versionedRequest returns (ver, config, err; err = "" is nil), and whether
\* it decoded the body a second time, as a bare T.
Resolved(ver, config, err, bare) ==
    [ver |-> ver, config |-> config, err |-> err, bare |-> bare]

\* A faulty fromBare: the second decode's result is returned without the zero check.
fromBareNoZeroCheck(body) ==
    LET config == UnmarshalConfig(body) IN
    IF ~config.ok
    THEN Resolved("", emptyT, "could not unmarshal request", TRUE)
    ELSE Resolved(Latest, config.v, "", TRUE)

\* "Let's try again directly against the config": the body decoded as a bare T.
fromBare(body) ==
    LET config == UnmarshalConfig(body) IN
    IF ~config.ok
    THEN Resolved("", emptyT, "could not unmarshal request", TRUE)
    ELSE IF IsZero(config.v)
    THEN Resolved("", emptyT, "must provide a valid request", TRUE)
    ELSE Resolved(Latest, config.v, "", TRUE)

\* A faulty zeroReq: .ABVersion is not looked at when .Req is zero.
zeroReqNoVersionCheck(versioned, body) == fromBare(body)

\* The envelope has a zero .Req: a mistake if .ABVersion is set, a bare request
\* otherwise.
zeroReq(versioned, body) ==
    IF versioned.ABVersion # ""
    THEN Resolved("", emptyT, "must provide .Req if .ABVersion is set", FALSE)
    ELSE fromBare(body)

\* A faulty fromEnvelope: the bare config variable, which is zero here, is returned for .Req.
fromEnvelopeReturnsConfig(versioned) ==
    IF versioned.ABVersion = ""
    THEN Resolved("", emptyT, "must provide a version", FALSE)
    ELSE Resolved(versioned.ABVersion, emptyT, "", FALSE)

\* A faulty fromEnvelope: an envelope without a version goes to the latest version.
fromEnvelopeDefaultsToLatest(versioned) ==
    IF versioned.ABVersion = ""
    THEN Resolved(Latest, versioned.Req, "", FALSE)
    ELSE Resolved(versioned.ABVersion, versioned.Req, "", FALSE)

\* The envelope has a .Req: it needs a version.
fromEnvelope(versioned) ==
    IF versioned.ABVersion = ""
    THEN Resolved("", emptyT, "must provide a version", FALSE)
    ELSE Resolved(versioned.ABVersion, versioned.Req, "", FALSE)

\* A faulty versionedRequest: a body that does not decode as an envelope is tried as a bare request.
versionedRequestFallsBack(body) ==
    IF Len(body) = 0 THEN Resolved("", emptyT, "empty body", FALSE)
    ELSE LET versioned == UnmarshalVersioned(body) IN
         IF ~versioned.ok THEN fromBare(body)
         ELSE IF IsZero(versioned.v.Req) THEN zeroReq(versioned.v, body)
         ELSE fromEnvelope(versioned.v)

versionedRequest(body) ==
    IF Len(body) = 0 THEN Resolved("", emptyT, "empty body", FALSE)
    ELSE LET versioned == UnmarshalVersioned(body) IN
         IF ~versioned.ok
         THEN Resolved("", emptyT, "could not unmarshal VersionedReq", FALSE)
         ELSE IF IsZero(versioned.v.Req) THEN zeroReq(versioned.v, body)
         ELSE fromEnvelope(versioned.v)

(***************************************************************************)
(* Paths and URLs: sequences of "/"-separated elements.                    *)
(***************************************************************************)
EmptyString == <<>>

RECURSIVE CleanElems(_, _, _)
\* path.Clean on the elements: an empty element (a repeated "/") and "." are
\* dropped, ".." removes the element before it.
CleanElems(e, acc, rooted) ==
    IF e = <<>> THEN acc
    ELSE IF e[1] = "" \/ e[1] = "." THEN CleanElems(Tail(e), acc, rooted)
    ELSE IF e[1] = ".."
         THEN IF acc # <<>> /\ acc[Len(acc)] # ".."
              THEN CleanElems(Tail(e), SubSeq(acc, 1, Len(acc) - 1), rooted)
              ELSE IF rooted THEN CleanElems(Tail(e), acc, rooted)
              ELSE CleanElems(Tail(e), Append(acc, ".."), rooted)
    ELSE CleanElems(Tail(e), Append(acc, e[1]), rooted)

Clean(e) ==
    LET rooted == Len(e) >= 2 /\ e[1] = ""
        c == CleanElems(e, <<>>, rooted)
    IN  IF rooted THEN (IF c = <<>> THEN <<"", "">> ELSE <<"">> \o c)
        ELSE IF c = <<>> THEN <<".">> ELSE c

\* path.Join(a, b), filepath.Join(a, b): the non-empty arguments joined by "/",
\* then cleaned.
Join(a, b) ==
    IF a = EmptyString /\ b = EmptyString THEN EmptyString ELSE Clean(a \o b)

\* fmt.Sprintf("http://localhost:%d", port)
Addr(port) == <<"http:", "", "localhost:" \o ToString(port)>>

\* The host an HTTP client connects to for a URL: what stands between "://" and
\* the next "/"; a URL without "//" after its scheme names no host.
URLHost(u) == IF Len(u) >= 3 /\ u[1] # "" /\ u[2] = "" THEN u[3] ELSE ""

(***************************************************************************)
(* The embedded binaries directory.  ReadDir lists it sorted by name.      *)
(***************************************************************************)
EntryNames == <<"1.0.0", "1.1.0", "README.md", "latest", "nightly">>
EntryIsDir(n) == n # "README.md"

Entry(name, isDir, hasBin) == [name |-> name, isDir |-> isDir, hasBin |-> hasBin]

RECURSIVE EntriesOf(_, _)
\* The listing of the entries named by the indices in S, in the order of the names;
\* B holds the indices of the directories with an agentbaker file.
EntriesOf(S, B) ==
    IF S = {} THEN <<>>
    ELSE LET i == CHOOSE k \in S : \A j \in S : k <= j IN
         <<Entry(EntryNames[i], EntryIsDir(EntryNames[i]),
                 EntryIsDir(EntryNames[i]) /\ i \in B)>>
         \o EntriesOf(S \ {i}, B)

Bundles ==
    {EntriesOf(S, B) : <<S, B>> \in
        {sb \in (SUBSET (1..Len(EntryNames))) \X (SUBSET (1..Len(EntryNames))) :
            /\ Cardinality(sb[1]) <= MaxEntries
            /\ sb[2] \subseteq {i \in sb[1] : EntryIsDir(EntryNames[i])}}}

\* The bytes of the agentbaker file of a version.
BinOf(name) == "agentbaker-" \o name

(***************************************************************************)
(* package versions                                                        *)
(***************************************************************************)
versionPath(version, bin, addr) == [version |-> version, bin |-> bin, addr |-> addr]

\* Version.validate: no detection logic yet, every name validates (nil).
validate(v) == ""

RECURSIVE extractFrom(_, _)
\* The loop of extractBinaries over the listing: err # "" is the error returned.
extractFrom(entries, verPaths) ==
    IF entries = <<>> THEN [err |-> "", verPaths |-> verPaths]
    ELSE LET fn == entries[1] IN
         IF ~fn.isDir THEN extractFrom(Tail(entries), verPaths)
         ELSE IF validate(fn.name) # ""
              THEN [err |-> "version did not validate", verPaths |-> <<>>]
         ELSE IF ~fn.hasBin
              THEN [err |-> "could not read agentbaker file", verPaths |-> <<>>]
         ELSE extractFrom(Tail(entries),
                          Append(verPaths, versionPath(fn.name, BinOf(fn.name), EmptyString)))

extractBinaries(readable, entries) ==
    IF ~readable THEN [err |-> "could not read the versions directory", verPaths |-> <<>>]
    ELSE extractFrom(entries, <<>>)

\* ports.Store(8080)
PortBase == 8080
\* A faulty PortsAdd: the counter is read, not incremented.
PortsLoad(p) == p

\* A faulty PortsAdd: the counter advances by two.
PortsAddTwo(p) == p + 2

\* ports.Add(1): the new value of the counter.
PortsAdd(p) == p + 1

\* os.TempDir()
tmpdir == <<"", "tmp">>

\* A faulty NewMapping: the last version of the listing is entered as "latest" too.
NewMappingWithLatest(verPaths) ==
    [v \in {verPaths[i].version : i \in 1..Len(verPaths)}
            \cup (IF verPaths = <<>> THEN {} ELSE {Latest}) |->
        IF v \in {verPaths[i].version : i \in 1..Len(verPaths)}
        THEN verPaths[CHOOSE i \in 1..Len(verPaths) :
                        /\ verPaths[i].version = v
                        /\ \A j \in 1..Len(verPaths) : verPaths[j].version = v => j <= i].addr
        ELSE verPaths[Len(verPaths)].addr]

\* The Mapping that New builds from verPaths.
NewMapping(verPaths) ==
    [v \in {verPaths[i].version : i \in 1..Len(verPaths)} |->
        LET last == CHOOSE i \in 1..Len(verPaths) :
                        /\ verPaths[i].version = v
                        /\ \A j \in 1..Len(verPaths) : verPaths[j].version = v => j <= i
        IN verPaths[last].addr]

\* A faulty Base: a version without an entry gets the address of some entry.
BaseOrAny(m, v) ==
    IF v \in DOMAIN m THEN m[v]
    ELSE IF DOMAIN m # {} THEN m[CHOOSE w \in DOMAIN m : TRUE]
    ELSE EmptyString

\* Mapping.Base: the address of a version, the empty string when it has none.
Base(m, v) == IF v \in DOMAIN m THEN m[v] ELSE EmptyString

(***************************************************************************)
(* State.                                                                  *)
(***************************************************************************)
VARIABLES
    bundle,     \* the entries of the embedded binaries directory
    readable,   \* whether ReadDir on it succeeds
    pc,         \* where main is
    verPaths,   \* the slice extractBinaries returns and spawnVersions fills in
    ports,      \* the atomic port counter of spawnVersions
    tasks,      \* the goroutines of spawnVersions, one per element of verPaths
    files,      \* the files written to the temporary directory
    procs,      \* the commands started
    mapping,    \* Server.mapping
    reqs,       \* the requests being handled
    body,       \* an input of versionedRequest on its own
    resolved    \* and its result

vars == <<bundle, readable, pc, verPaths, ports, tasks, files, procs, mapping, reqs,
          body, resolved>>
startVars == <<bundle, readable, pc, verPaths, ports, tasks, files, procs, mapping>>

Slots == 1..MaxReq

NoResult == Resolved("", emptyT, "not called", FALSE)

IdleReq ==
    [state |-> "idle", path |-> EmptyString, body |-> <<>>, res |-> NoResult,
     base |-> EmptyString, target |-> EmptyString, out |-> <<>>, calls |-> 0,
     answer |-> [errs |-> FALSE, status |-> 0, body |-> ""],
     agentStatus |-> 0, status |-> 0, reply |-> "", err |-> ""]

Task(fpc, vp, err) == [pc |-> fpc, vp |-> vp, err |-> err]

NoMapping == [v \in {} |-> EmptyString]

Init ==
    /\ bundle \in Bundles
    /\ readable \in BOOLEAN
    /\ pc = "extract"
    /\ verPaths = <<>>
    /\ ports = 0
    /\ tasks = <<>>
    /\ files = {}
    /\ procs = {}
    /\ mapping = NoMapping
    /\ reqs = [s \in Slots |-> IdleReq]
    /\ body = <<>>
    /\ resolved = NoResult

(***************************************************************************)
(* Startup: versions.New, called by main.                                  *)
(***************************************************************************)
\* New calls extractBinaries; its error makes main panic.
ExtractBinaries ==
    /\ pc = "extract"
    /\ LET r == extractBinaries(readable, bundle) IN
        /\ verPaths' = r.verPaths
        /\ pc' = IF r.err # "" THEN "panic" ELSE "spawn"
    /\ UNCHANGED <<bundle, readable, ports, tasks, files, procs, mapping, reqs,
                   body, resolved>>

\* spawnVersions up to g.Wait: the counter is set and one goroutine per version starts.
SpawnVersions ==
    /\ pc = "spawn"
    /\ ports' = PortBase
    /\ tasks' = [i \in 1..Len(verPaths) |-> Task("write", verPaths[i], "")]
    /\ pc' = "wait"
    /\ UNCHANGED <<bundle, readable, verPaths, files, procs, mapping, reqs, body, resolved>>

\* fp of a goroutine
fp(vp) == Join(tmpdir, <<vp.version>>)

\* os.WriteFile of the binary, which may fail.
TaskWrite(i) ==
    /\ pc = "wait"
    /\ tasks[i].pc = "write"
    /\ \/ /\ files' = files \cup {[path |-> fp(tasks[i].vp), content |-> tasks[i].vp.bin]}
          /\ tasks' = [tasks EXCEPT ![i].pc = "alloc"]
       \/ /\ files' = files
          /\ tasks' = [tasks EXCEPT ![i].pc = "failed",
                                    ![i].err = "could not write agentbaker binary file"]
    /\ UNCHANGED <<bundle, readable, pc, verPaths, ports, procs, mapping, reqs, body, resolved>>

\* port := ports.Add(1) - 1; vp.addr = Sprintf(...)
TaskPort(i) ==
    /\ pc = "wait"
    /\ tasks[i].pc = "alloc"
    /\ ports' = PortsAdd(ports)
    /\ tasks' = [tasks EXCEPT ![i].pc = "start", ![i].vp.addr = Addr(ports' - 1)]
    /\ UNCHANGED <<bundle, readable, pc, verPaths, files, procs, mapping, reqs, body, resolved>>

\* exec.Command(fp, "-port", vp.addr).Start(), which may fail.
TaskStart(i) ==
    /\ pc = "wait"
    /\ tasks[i].pc = "start"
    /\ \/ /\ procs' = procs \cup {[path |-> fp(tasks[i].vp), flag |-> "-port",
                                   value |-> tasks[i].vp.addr]}
          /\ tasks' = [tasks EXCEPT ![i].pc = "record"]
       \/ /\ procs' = procs
          /\ tasks' = [tasks EXCEPT ![i].pc = "failed",
                                    ![i].err = "could not start agentbaker binary"]
    /\ UNCHANGED <<bundle, readable, pc, verPaths, ports, files, mapping, reqs, body, resolved>>

\* A faulty TaskRecord: the goroutine writes its versionPath to every slot.
TaskRecordAllSlots(i) ==
    /\ pc = "wait"
    /\ tasks[i].pc = "record"
    /\ verPaths' = [j \in DOMAIN verPaths |-> tasks[i].vp]
    /\ tasks' = [tasks EXCEPT ![i].pc = "done"]
    /\ UNCHANGED <<bundle, readable, pc, ports, files, procs, mapping, reqs, body, resolved>>

\* verPaths[i] = vp; return nil
TaskRecord(i) ==
    /\ pc = "wait"
    /\ tasks[i].pc = "record"
    /\ verPaths' = [verPaths EXCEPT ![i] = tasks[i].vp]
    /\ tasks' = [tasks EXCEPT ![i].pc = "done"]
    /\ UNCHANGED <<bundle, readable, pc, ports, files, procs, mapping, reqs, body, resolved>>

\* A faulty TaskFinished: a goroutine counts as returned once its port is allocated.
TaskFinishedEarly(i) == tasks[i].pc \in {"start", "record", "done", "failed"}

\* A goroutine of spawnVersions has returned.
TaskFinished(i) == tasks[i].pc \in {"done", "failed"}

\* A faulty waitErr: only the error of the last goroutine is kept.
waitErrOfLast(t) == IF t = <<>> THEN "" ELSE t[Len(t)].err

\* The error g.Wait returns: that of a goroutine that returned one, nil ("") when
\* none did.
waitErr(t) ==
    IF \E i \in DOMAIN t : t[i].err # ""
    THEN t[CHOOSE i \in DOMAIN t : t[i].err # ""].err
    ELSE ""

\* g.Wait returns once every goroutine has; on an error New returns Mapping{} and
\* the error and main panics, otherwise New builds the Mapping and main hands it
\* to http.New.
Wait ==
    /\ pc = "wait"
    /\ \A i \in DOMAIN tasks : TaskFinished(i)
    /\ IF waitErr(tasks) # ""
       THEN /\ pc' = "panic"
            /\ mapping' = mapping
       ELSE /\ pc' = "listen"
            /\ mapping' = NewMapping(verPaths)
    /\ UNCHANGED <<bundle, readable, verPaths, ports, tasks, files, procs, reqs,
                   body, resolved>>

\* serv.ListenAndServe(*addr): the server serves, or Listen fails and main panics.
ListenAndServe ==
    /\ pc = "listen"
    /\ pc' \in {"serving", "panic"}
    /\ UNCHANGED <<bundle, readable, verPaths, ports, tasks, files, procs, mapping,
                   reqs, body, resolved>>

(***************************************************************************)
(* package http: the handlers of the three RPC endpoints.                  *)
(***************************************************************************)
bootstrapDataPath == <<"", "getnodebootstrapdata">>
latestConfigPath == <<"", "getlatestsigimageconfig">>
distroConfigPath == <<"", "getdistrosigimageconfig">>

\* fiber.StatusOK
StatusOK == 200

\* The bodies clients post in the model of the whole program: a bare request,
\* requests for four versions, a version without a request, and text that is
\* no JSON.
PostedVersions == {"1.0.0", "1.1.0", "9.9.9", Latest}
PostedBodies ==
    {MarshalConfig(Config("x", "y")), MarshalConfig(emptyT), <<LB>>}
    \cup {MarshalVersioned(VersionedReq(v, Config("x", "y"))) : v \in PostedVersions}

\* What a call of an agent can return: errors (errs), or a status and a body.
AgentAnswers ==
    {[errs |-> TRUE, status |-> 0, body |-> ""]}
    \cup {[errs |-> FALSE, status |-> st, body |-> "answer"] : st \in {StatusOK, 201, 500}}

\* A client posts a body to an endpoint; the app routes it by its path.
Post(s) ==
    /\ pc = "serving"
    /\ reqs[s].state = "idle"
    /\ \E p \in {bootstrapDataPath, latestConfigPath, distroConfigPath}, b \in PostedBodies :
           reqs' = [reqs EXCEPT ![s] = [IdleReq EXCEPT !.state = "received",
                                                       !.path = p, !.body = b]]
    /\ UNCHANGED <<startVars, body, resolved>>

ErrNotFound == "could not find agent baker version in our mapping"

\* A handler's error return: the framework answers the client with the error.
Failed(r, res, base, err) ==
    [r EXCEPT !.state = "done", !.res = res, !.base = base, !.err = err, !.status = 500]

\* sendToAgentBaker up to agent.Bytes(): the POST to path.Join(base, c.Path())
\* with the body given.  (The request's headers, copied to the call, are left out.)
sendToAgentBaker(r, base, out) ==
    [r EXCEPT !.state = "sent", !.base = base, !.out = out,
              !.target = Join(base, r.path), !.calls = @ + 1]

\* The body of bootstrapData, latestConfig and distroConfig, which differ in the
\* request type only.  (json.Marshal of a struct of strings does not fail.)
handle(r, m) ==
    LET res == versionedRequest(r.body)
        base == Base(m, res.ver)
    IN  IF res.err # "" THEN Failed(r, res, EmptyString, res.err)
        ELSE IF base = EmptyString
        THEN Failed(r, res, base, ErrNotFound)
        ELSE sendToAgentBaker([r EXCEPT !.res = res], base, MarshalConfig(res.config))

\* A faulty bootstrapData: the lookup leaves an entry for the version it looked up.
bootstrapDataStoresLookup(s) ==
    /\ reqs[s].state = "received"
    /\ reqs[s].path = bootstrapDataPath
    /\ reqs' = [reqs EXCEPT ![s] = handle(reqs[s], mapping)]
    /\ mapping' = [v \in DOMAIN mapping \cup {versionedRequest(reqs[s].body).ver} |->
                        Base(mapping, v)]
    /\ UNCHANGED <<bundle, readable, pc, verPaths, ports, tasks, files, procs,
                   body, resolved>>

bootstrapData(s) ==
    /\ reqs[s].state = "received"
    /\ reqs[s].path = bootstrapDataPath
    /\ reqs' = [reqs EXCEPT ![s] = handle(reqs[s], mapping)]
    /\ UNCHANGED <<startVars, body, resolved>>

latestConfig(s) ==
    /\ reqs[s].state = "received"
    /\ reqs[s].path = latestConfigPath
    /\ reqs' = [reqs EXCEPT ![s] = handle(reqs[s], mapping)]
    /\ UNCHANGED <<startVars, body, resolved>>

distroConfig(s) ==
    /\ reqs[s].state = "received"
    /\ reqs[s].path = distroConfigPath
    /\ reqs' = [reqs EXCEPT ![s] = handle(reqs[s], mapping)]
    /\ UNCHANGED <<startVars, body, resolved>>

\* A faulty afterBytes: the status of the agent is not looked at.
afterBytesAnyStatus(r, a) ==
    IF a.errs
    THEN [r EXCEPT !.state = "done", !.err = "could not send the request to the agent",
                   !.status = 500]
    ELSE [r EXCEPT !.state = "done", !.agentStatus = a.status, !.status = StatusOK,
                   !.reply = a.body]

\* A faulty afterBytes: a call that failed in transport is made again, once.
afterBytesRetries(r, a) ==
    IF a.errs /\ r.calls < 2
    THEN [r EXCEPT !.calls = @ + 1]
    ELSE IF a.errs
    THEN [r EXCEPT !.state = "done", !.err = "could not send the request to the agent",
                   !.status = 500]
    ELSE IF a.status # StatusOK
    THEN [r EXCEPT !.state = "done", !.err = "the agent returned a non-200 status code",
                   !.agentStatus = a.status, !.status = 500]
    ELSE [r EXCEPT !.state = "done", !.agentStatus = a.status, !.status = StatusOK,
                   !.reply = a.body]

\* The rest of sendToAgentBaker, from what agent.Bytes() returned.
afterBytes(r, a) ==
    IF a.errs
    THEN [r EXCEPT !.state = "done", !.err = "could not send the request to the agent",
                   !.status = 500]
    ELSE IF a.status # StatusOK
    THEN [r EXCEPT !.state = "done", !.err = "the agent returned a non-200 status code",
                   !.agentStatus = a.status, !.status = 500]
    ELSE [r EXCEPT !.state = "done", !.agentStatus = a.status, !.status = StatusOK,
                   !.reply = a.body]

\* agent.Bytes() returns what the agent answered (kept in answer) and the handler
\* ends.
AgentBytes(s) ==
    /\ reqs[s].state = "sent"
    /\ \E a \in AgentAnswers :
           reqs' = [reqs EXCEPT ![s] = afterBytes([reqs[s] EXCEPT !.answer = a], a)]
    /\ UNCHANGED <<startVars, body, resolved>>

\* The response is with the client.
Respond(s) ==
    /\ reqs[s].state = "done"
    /\ reqs' = [reqs EXCEPT ![s] = IdleReq]
    /\ UNCHANGED <<startVars, body, resolved>>

Next ==
    \/ ExtractBinaries
    \/ SpawnVersions
    \/ \E i \in DOMAIN tasks : TaskWrite(i)
    \/ \E i \in DOMAIN tasks : TaskPort(i)
    \/ \E i \in DOMAIN tasks : TaskStart(i)
    \/ \E i \in DOMAIN tasks : TaskRecord(i)
    \/ Wait
    \/ ListenAndServe
    \/ \E s \in Slots : Post(s)
    \/ \E s \in Slots : bootstrapData(s)
    \/ \E s \in Slots : latestConfig(s)
    \/ \E s \in Slots : distroConfig(s)
    \/ \E s \in Slots : AgentBytes(s)
    \/ \E s \in Slots : Respond(s)

Spec == Init /\ [][Next]_vars

(***************************************************************************)
(* versionedRequest on its own, over request bodies: the encodings of bare *)
(* requests and of envelopes, with members left out, reordered, null or    *)
(* mistyped, and every text cut short.                                     *)
(***************************************************************************)
PayloadStrings == {"", "x", "y"}
Payloads == {Config(t, d) : t \in PayloadStrings, d \in PayloadStrings}
NonZeroPayloads == Payloads \ {Config("", "")}
Versions == {"1.0.0", "9.9.9", Latest}

\* The JSON objects that encode the payload p: its fields in either order, a
\* field with the zero value possibly left out.
BareDocs(p) ==
    LET t == Member("Type", JStr(p.Type))
        d == Member("Data", JStr(p.Data))
    IN  {JObj(<<t, d>>), JObj(<<d, t>>)}
        \cup (IF p.Data = "" THEN {JObj(<<t>>)} ELSE {})
        \cup (IF p.Type = "" THEN {JObj(<<d>>)} ELSE {})

\* The JSON values that encode an absent or zero Req.
ZeroReqDocs == BareDocs(emptyT) \cup {JObj(<<>>), JNull}

\* The JSON objects that encode the envelope {ABVersion: v, Req: p}.
EnvelopeDocs(v, p) ==
    UNION {{JObj(<<Member("ABVersion", JStr(v)), Member("Req", d)>>),
            JObj(<<Member("Req", d), Member("ABVersion", JStr(v))>>)} : d \in BareDocs(p)}

\* Envelopes with ABVersion = v and no Req, or a zero one.
VersionOnlyDocs(v) ==
    {JObj(<<Member("ABVersion", JStr(v))>>)}
    \cup {JObj(<<Member("ABVersion", JStr(v)), Member("Req", d)>>) : d \in ZeroReqDocs}

\* Envelopes with Req = p and no ABVersion, or an empty one.
ReqOnlyDocs(p) ==
    UNION {{JObj(<<Member("Req", d)>>),
            JObj(<<Member("ABVersion", JStr("")), Member("Req", d)>>),
            JObj(<<Member("ABVersion", JNull), Member("Req", d)>>)} : d \in BareDocs(p)}

\* Other texts: unknown members, mistyped members, a name twice, no object.
OddDocs ==
    {JObj(<<>>), JNull, JStr("x"), JNum("5"),
     JObj(<<Member("Random", JStr("data"))>>),
     JObj(<<Member("Random", JObj(<<Member("Type", JStr("x"))>>))>>),
     JObj(<<Member("Type", JStr("x")), Member("Random", JStr("data"))>>),
     JObj(<<Member("Type", JNum("5"))>>),
     JObj(<<Member("Random", JStr("data")), Member("Data", JObj(<<>>))>>),
     JObj(<<Member("ABVersion", JNum("5"))>>),
     JObj(<<Member("Req", JStr("x"))>>),
     JObj(<<Member("ABVersion", JStr("1.0.0")), Member("Req", JNum("5"))>>),
     JObj(<<Member("Type", JStr("x")), Member("Type", JStr("y"))>>),
     JObj(<<Member("ABVersion", JStr("1.0.0")), Member("Type", JStr("x")),
            Member("Data", JStr("y"))>>)}

Docs ==
    UNION {BareDocs(p) : p \in Payloads}
    \cup UNION {EnvelopeDocs(v, p) : v \in Versions, p \in NonZeroPayloads}
    \cup UNION {VersionOnlyDocs(v) : v \in Versions}
    \cup UNION {ReqOnlyDocs(p) : p \in NonZeroPayloads}
    \cup OddDocs

Prefixes(t) == {SubSeq(t, 1, n) : n \in 0..Len(t)}
Bodies == UNION {Prefixes(Serialize(d)) : d \in Docs}

InitResolve ==
    /\ bundle = <<>>
    /\ readable = TRUE
    /\ pc = "extract"
    /\ verPaths = <<>>
    /\ ports = 0
    /\ tasks = <<>>
    /\ files = {}
    /\ procs = {}
    /\ mapping = NoMapping
    /\ reqs = [s \in Slots |-> IdleReq]
    /\ body \in Bodies
    /\ resolved = NoResult

\* versionedRequest[Config](body)
Resolve ==
    /\ resolved = NoResult
    /\ resolved' = versionedRequest(body)
    /\ UNCHANGED <<startVars, reqs, body>>

NextResolve == Resolve

SpecResolve == InitResolve /\ [][NextResolve]_vars

(***************************************************************************)
(* Properties of versionedRequest, under SpecResolve.                      *)
(***************************************************************************)
Called == resolved # NoResult
TextsOf(docs) == {Serialize(d) : d \in docs}

\* C1: a body that encodes a non-zero bare payload P, with no ABVersion and no Req
\* member, resolves without error to the version "latest" and the payload P.
C1_BareResolvesToLatest ==
    Called =>
        \A p \in NonZeroPayloads :
            body \in TextsOf(BareDocs(p)) =>
                /\ resolved.err = ""
                /\ resolved.ver = Latest
                /\ resolved.config = p

\* A bare payload with one field left out has been resolved to "latest".
C1_Witness ==
    /\ Called
    /\ body = Serialize(JObj(<<Member("Type", JStr("x"))>>))
    /\ resolved.ver = Latest
    /\ resolved.config = Config("x", "")

\* C2: the encoding of the envelope {ABVersion: V, Req: P}, V not empty and P not
\* zero, resolves without error to the version V and the payload P.
C2_EnvelopeResolvesToVersion ==
    Called =>
        \A v \in Versions, p \in NonZeroPayloads :
            body \in TextsOf(EnvelopeDocs(v, p)) =>
                /\ resolved.err = ""
                /\ resolved.ver = v
                /\ resolved.config = p

\* The envelope for version 1.0.0 of the test has been resolved.
C2_Witness ==
    /\ Called
    /\ body = MarshalVersioned(VersionedReq("1.0.0", Config("x", "y")))
    /\ resolved.ver = "1.0.0"
    /\ resolved.config = Config("x", "y")

\* C3: an envelope that sets ABVersion to a non-empty V and has no Req, or a zero
\* one, is an error, and the body is not decoded a second time as a bare payload.
C3_VersionWithoutReqFails ==
    Called =>
        \A v \in Versions :
            body \in TextsOf(VersionOnlyDocs(v)) =>
                /\ resolved.err # ""
                /\ ~resolved.bare
                /\ resolved.ver = ""

\* {"ABVersion":"1.0.0"} has been refused.
C3_Witness ==
    /\ Called
    /\ body = Serialize(JObj(<<Member("ABVersion", JStr("1.0.0"))>>))
    /\ resolved.err = "must provide .Req if .ABVersion is set"

\* C4: an envelope that carries a non-zero Req and an empty or absent ABVersion is
\* an error; it is not resolved to "latest".
C4_ReqWithoutVersionFails ==
    Called =>
        \A p \in NonZeroPayloads :
            body \in TextsOf(ReqOnlyDocs(p)) =>
                /\ resolved.err # ""
                /\ resolved.ver # Latest

\* {"Req":{"Type":"x","Data":"y"}} has been refused.
C4_Witness ==
    /\ Called
    /\ body = Serialize(JObj(<<Member("Req", ConfigJSON(Config("x", "y")))>>))
    /\ resolved.err = "must provide a version"

\* Texts that are no JSON value: a text of an object cut short.
CutShort ==
    UNION {{SubSeq(Serialize(d), 1, n) : n \in 1..(Len(Serialize(d)) - 1)} :
              d \in {e \in Docs : e.k = "obj"}}

\* Texts whose members have the wrong JSON type for the envelope's fields.
Mistyped ==
    TextsOf({JStr("x"), JNum("5"),
             JObj(<<Member("ABVersion", JNum("5"))>>),
             JObj(<<Member("Req", JStr("x"))>>),
             JObj(<<Member("ABVersion", JStr("1.0.0")), Member("Req", JNum("5"))>>)})

\* C5: the empty body is an error, and so is every body that does not decode as
\* an envelope (a text cut short such as "{", a member of the wrong type); for
\* these the body is not decoded a second time as a bare payload.
C5_MalformedFails ==
    Called =>
        /\ body = <<>> => resolved.err # ""
        /\ (body \in CutShort \cup Mistyped \/ ~UnmarshalVersioned(body).ok) =>
                resolved.err # "" /\ ~resolved.bare

\* "{" has been refused by the first decode.
C5_Witness ==
    /\ Called
    /\ body = <<LB>>
    /\ body \in CutShort
    /\ resolved.err = "could not unmarshal VersionedReq"

\* C6: a body that decodes as an envelope with an empty ABVersion and a zero Req,
\* and as a bare payload gives the zero value or does not decode, is an error; it
\* is not resolved to "latest" with an empty payload.
C6_NoContentFails ==
    Called =>
        LET versioned == UnmarshalVersioned(body)
            config == UnmarshalConfig(body)
        IN  (/\ versioned.ok
             /\ versioned.v.ABVersion = ""
             /\ versioned.v.Req = Config("", "")
             /\ (~config.ok \/ config.v = Config("", ""))) =>
                /\ resolved.err # ""
                /\ resolved.ver # Latest

\* {"Random":"data"} has been refused after the second decode.
C6_Witness ==
    /\ Called
    /\ body = Serialize(JObj(<<Member("Random", JStr("data"))>>))
    /\ resolved.bare
    /\ resolved.err = "must provide a valid request"

(***************************************************************************)
(* Properties of the program, under Spec.                                  *)
(***************************************************************************)
\* The handler of the request in slot s has run.
Handled(s) == reqs[s].state \in {"sent", "done"}

\* The versions with a directory in the bundle, and the last of the listing.
DirNames == {bundle[i].name : i \in {k \in 1..Len(bundle) : bundle[k].isDir}}
ReleaseBundle == DirNames # {} /\ Latest \notin DirNames

\* C7: after a startup over a bundle of release versions, a bare non-zero request
\* is sent to a running instance, that of the latest version, and the instance's
\* answer goes back to the caller.
C7_BareGoesToLatestInstance ==
    \A s \in Slots :
        (/\ pc = "serving"
         /\ ReleaseBundle
         /\ Handled(s)
         /\ reqs[s].body \in TextsOf(UNION {BareDocs(p) : p \in NonZeroPayloads})) =>
            /\ reqs[s].calls = 1
            /\ reqs[s].err # ErrNotFound
            /\ reqs[s].base = mapping[verPaths[Len(verPaths)].version]

\* C8: an enveloped request for a version V of the mapping is sent to the address
\* recorded for V, once: the URL called begins with that address and its host is
\* that of the address.
C8_EnvelopeGoesToItsInstance ==
    \A s \in Slots :
        (/\ Handled(s)
         /\ reqs[s].res.err = ""
         /\ ~reqs[s].res.bare
         /\ reqs[s].res.ver \in DOMAIN mapping) =>
            /\ reqs[s].calls = 1
            /\ SubSeq(reqs[s].target, 1, Len(mapping[reqs[s].res.ver])) = mapping[reqs[s].res.ver]
            /\ URLHost(reqs[s].target) = URLHost(mapping[reqs[s].res.ver])

\* C9: a request that resolves to a version without an entry in the mapping gets
\* no address from the lookup, fails with the not-found error and calls no agent.
C9_UnknownVersionNotFound ==
    \A s \in Slots :
        (/\ Handled(s)
         /\ reqs[s].res.err = ""
         /\ reqs[s].res.ver \notin DOMAIN mapping) =>
            /\ reqs[s].base = EmptyString
            /\ reqs[s].state = "done"
            /\ reqs[s].err = ErrNotFound
            /\ reqs[s].calls = 0
            /\ reqs[s].target = EmptyString

\* A request for 9.9.9 has failed while other versions run.
C9_Witness ==
    \E s \in Slots :
        /\ reqs[s].state = "done"
        /\ reqs[s].res.ver = "9.9.9"
        /\ reqs[s].err = ErrNotFound
        /\ DOMAIN mapping # {}

\* C10: when the launches of all N versions succeed, whatever the order of their
\* steps, the mapping has N entries, one per version, and no two versions have
\* the same address.
C10_MappingOnePerVersion ==
    pc \in {"listen", "serving"} =>
        /\ DOMAIN mapping = {verPaths[i].version : i \in 1..Len(verPaths)}
        /\ DOMAIN mapping = DirNames
        /\ Cardinality(DOMAIN mapping) = Len(verPaths)
        /\ \A v \in DOMAIN mapping : mapping[v] \in {Addr(p) : p \in PortBase..(ports - 1)}
        /\ \A v, w \in DOMAIN mapping : v # w => mapping[v] # mapping[w]

\* Two versions have been launched, the second in the listing first.
C10_Witness ==
    /\ pc = "serving"
    /\ Len(verPaths) = 2
    /\ mapping[verPaths[2].version] = Addr(PortBase)
    /\ mapping[verPaths[1].version] = Addr(PortBase + 1)

\* C11: when the write of the binary or the start of the process of one version
\* fails, New returns an error and the empty Mapping: no entry is published, not
\* even of the versions that started, and the server never serves.
C11_LaunchFailureNoMapping ==
    (\E i \in DOMAIN tasks : tasks[i].pc = "failed") =>
        /\ mapping = NoMapping
        /\ pc \in {"wait", "panic"}
        /\ \A s \in Slots : reqs[s] = IdleReq

\* Main has panicked after one version started and recorded its address and the
\* other failed.
C11_Witness ==
    /\ pc = "panic"
    /\ \E i, j \in DOMAIN tasks :
        /\ tasks[i].pc = "failed"
        /\ tasks[j].pc = "done"
        /\ verPaths[j].addr # EmptyString

\* The goroutines that have been given a port.
Allocated == {i \in DOMAIN tasks : tasks[i].vp.addr # EmptyString}

\* C12: whatever the order of the goroutines, the counter hands out 8080, 8081,
\* ... in sequence: after k allocations the ports given are exactly
\* 8080 .. 8080+k-1, each to one goroutine.
C12_PortsSequential ==
    DOMAIN tasks # {} =>
        LET k == Cardinality(Allocated) IN
        /\ ports = PortBase + k
        /\ {tasks[i].vp.addr : i \in Allocated} = {Addr(p) : p \in PortBase..(PortBase + k - 1)}
        /\ \A i, j \in Allocated : i # j => tasks[i].vp.addr # tasks[j].vp.addr

\* Two goroutines have their ports, the second of the listing the first port.
C12_Witness ==
    /\ Cardinality(Allocated) = 2
    /\ tasks[2].vp.addr = Addr(PortBase)
    /\ tasks[1].vp.addr = Addr(PortBase + 1)

\* The decimal text of a port, as an argument of a command.
PortText(p) == <<ToString(p)>>

\* C13: the process of every launched version is started with the port allocated
\* to it as its argument, the port of the address recorded for the version.
C13_ArgumentIsThePort ==
    \A i \in DOMAIN tasks :
        tasks[i].pc \in {"record", "done"} =>
            \E p \in PortBase..(ports - 1) :
                /\ tasks[i].vp.addr = Addr(p)
                /\ [path |-> fp(tasks[i].vp), flag |-> "-port", value |-> PortText(p)] \in procs

\* The request in slot s has been forwarded and the agent's answer handled.
Answered(s) == reqs[s].state = "done" /\ reqs[s].calls = 1

\* What C14 says of an answer, the statuses in ok being those relayed.
AnswerHandled(s, ok) ==
    LET r == reqs[s] IN
    /\ r.answer.errs => r.err = "could not send the request to the agent"
    /\ (~r.answer.errs /\ r.answer.status \in ok) =>
            /\ r.err = ""
            /\ r.status = r.answer.status
            /\ r.reply = r.answer.body
    /\ (~r.answer.errs /\ r.answer.status \notin ok) =>
            /\ r.err = "the agent returned a non-200 status code"
            /\ r.agentStatus = r.answer.status
            /\ r.reply = ""

\* C14, as stated: an answer with a success status (2xx) goes to the caller with
\* its status and body, an answer with another status is an error that carries the
\* status, a transport failure is an error.
C14_SuccessStatusRelayed ==
    \A s \in Slots : Answered(s) => AnswerHandled(s, 200..299)

\* C14, amended: an answer with status 200 goes to the caller with its status and
\* body; an answer with any other status, 201 and the other 2xx included, is an
\* error that carries the status; a transport failure is an error.
C14_Status200Relayed ==
    \A s \in Slots : Answered(s) => AnswerHandled(s, {StatusOK})

\* An agent has answered 201 and the request has failed with that status.
C14_Witness ==
    \E s \in Slots :
        /\ Answered(s)
        /\ reqs[s].answer.status = 201
        /\ reqs[s].agentStatus = 201
        /\ reqs[s].err = "the agent returned a non-200 status code"

C17_PublishedAfterStart ==
    /\ pc \notin {"extract", "spawn", "wait"} =>
            \A i \in DOMAIN tasks : tasks[i].pc \in {"done", "failed"}
    /\ \A v \in DOMAIN mapping :
            \E i \in DOMAIN tasks :
                /\ tasks[i].vp.version = v
                /\ tasks[i].pc = "done"
                /\ tasks[i].err = ""
                /\ mapping[v] = tasks[i].vp.addr
                /\ mapping[v] # EmptyString
                /\ \E p \in procs : p.path = fp(tasks[i].vp)

\* The mapping of two versions is with the server, and both processes have been
\* started.
C17_Witness ==
    /\ pc = "listen"
    /\ Cardinality(DOMAIN mapping) = 2
    /\ Cardinality(procs) = 2

Concat(a, b) ==
    IF a = <<>> THEN b
    ELSE IF b = <<>> THEN a
    ELSE SubSeq(a, 1, Len(a) - 1) \o <<a[Len(a)] \o b[1]>> \o Tail(b)

\* C19: the URL a request is posted to is the address of the mapping followed by
\* the path of the request, with the scheme and the host and port of the address.
C19_TargetIsBasePlusPath ==
    \A s \in Slots :
        (Handled(s) /\ reqs[s].calls = 1) =>
            /\ reqs[s].target = Concat(reqs[s].base, reqs[s].path)
            /\ reqs[s].target[1] = reqs[s].base[1]
            /\ URLHost(reqs[s].target) = URLHost(reqs[s].base)

\* C20: a request makes at most one call of an agent, also when the call fails
\* or the agent answers with a failing status, and none when its body does not
\* resolve.
C20_AtMostOneCall ==
    \A s \in Slots :
        /\ reqs[s].calls <= 1
        /\ reqs[s].state \in {"idle", "received"} => reqs[s].calls = 0
        /\ (Handled(s) /\ reqs[s].res.err # "") =>
                /\ reqs[s].calls = 0
                /\ reqs[s].state = "done"
                /\ reqs[s].target = EmptyString
        /\ (reqs[s].state = "done" /\ reqs[s].answer # IdleReq.answer) => reqs[s].calls = 1

\* A request has ended after the one call it made failed in transport.
C20_Witness ==
    \E s \in Slots :
        /\ reqs[s].state = "done"
        /\ reqs[s].answer.errs
        /\ reqs[s].calls = 1
        /\ reqs[s].err = "could not send the request to the agent"

\* The names in the version format: release tags and the reserved "latest".
VersionFormat == {"1.0.0", "1.1.0", Latest}

\* The directories of the bundle, in the order of the listing.
DirsOf(entries) == SelectSeq(entries, LAMBDA e : e.isDir)

\* extractBinaries has returned.
Extracted == pc # "extract"

\* C21: extractBinaries returns an error and no entry when the bundle cannot be
\* read, when a directory is not named in the version format, or when a
\* directory has no agentbaker file; otherwise it returns one entry per
\* directory, in the order of the listing, and none for the other entries.
C21_DiscoveryAllOrNothing ==
    Extracted =>
        IF \/ ~readable
           \/ \E i \in 1..Len(bundle) :
                bundle[i].isDir /\ (bundle[i].name \notin VersionFormat \/ ~bundle[i].hasBin)
        THEN /\ pc = "panic"
             /\ verPaths = <<>>
             /\ tasks = <<>>
        ELSE /\ Len(verPaths) = Len(DirsOf(bundle))
             /\ \A i \in 1..Len(verPaths) :
                    /\ verPaths[i].version = DirsOf(bundle)[i].name
                    /\ verPaths[i].bin = BinOf(DirsOf(bundle)[i].name)

\* The binary of goroutine i is written, and its process is started.
Written(i) == [path |-> fp(tasks[i].vp), content |-> tasks[i].vp.bin] \in files
Started(i) == \E p \in procs : p.path = fp(tasks[i].vp)

\* C22: a goroutine of spawnVersions writes its binary, then takes a port, then
\* starts its process, then records its versionPath: a port is taken only after
\* the write, a process started only after the port, the slot written only after
\* the start.  After a failed write there is no port and no process, after a
\* failed start no address in verPaths; slot i of verPaths is written by
\* goroutine i alone.
C22_LaunchStepsInOrder ==
    \A i \in DOMAIN tasks :
        LET t == tasks[i] IN
        /\ t.vp.addr # EmptyString => Written(i)
        /\ Started(i) => t.vp.addr # EmptyString
        /\ verPaths[i].addr # EmptyString => Started(i)
        /\ t.pc = "write" => ~Written(i)
        /\ t.pc \in {"alloc", "start", "record", "done"} => Written(i)
        /\ t.pc \in {"write", "alloc"} => t.vp.addr = EmptyString
        /\ t.pc \in {"start", "record", "done"} => t.vp.addr # EmptyString
        /\ t.pc \in {"write", "alloc", "start"} => ~Started(i)
        /\ t.pc \in {"record", "done"} => Started(i)
        /\ (t.pc = "failed" /\ t.err = "could not write agentbaker binary file") =>
                ~Written(i) /\ t.vp.addr = EmptyString /\ ~Started(i)
        /\ (t.pc = "failed" /\ t.err = "could not start agentbaker binary") =>
                Written(i) /\ t.vp.addr # EmptyString /\ ~Started(i)
        /\ verPaths[i] = IF t.pc = "done" THEN t.vp
                         ELSE versionPath(t.vp.version, t.vp.bin, EmptyString)

\* Of two goroutines one has recorded its address and the other, after taking a
\* port, has failed to start its process and left its slot without an address.
C22_Witness ==
    /\ pc = "wait"
    /\ \E i, j \in DOMAIN tasks :
        /\ tasks[i].pc = "done"
        /\ verPaths[i].addr = tasks[i].vp.addr
        /\ tasks[j].pc = "failed"
        /\ tasks[j].vp.addr # EmptyString
        /\ verPaths[j].addr = EmptyString

====
